---- MODULE Spec2Model ----
(***************************************************************************)
(* Yoints: a sprite that flees the pointer inside an arena and drives the  *)
(* Web Audio graph from its motion.  The repository holds two variants of  *)
(* the same script: src/main.js (sprite positioned by its centre, tone     *)
(* filter, audio mapped from position) and src/unnamed/part_000 (sprite    *)
(* positioned by its top-left corner, no filter, audio mapped from         *)
(* velocity).  The variable `variant` says which script is running.        *)
(*                                                                         *)
(* JavaScript numbers are doubles; they are modelled in fixed point:       *)
(*   positions, extents        1/10 px          (Fixed.pos  per px)        *)
(*   distances                 1/1000 px        (Fixed.dist per px)        *)
(*   unit-vector components    1/1000           (Fixed.unit)               *)
(*   speeds, velocities        px/s                                        *)
(*   times (now, last, dt)     ms               (Fixed.time per s)         *)
(*   normalised coordinates    1/1000           (Fixed.norm)               *)
(*   gains, playback rates     1/1000           (Fixed.rate)               *)
(*   melody phase              1/1000000 s      (Fixed.phase per s)        *)
(*   frequencies               Hz (filter), 1/100 Hz (melody)              *)
(* Quotients round toward zero.  NaN, which the code produces as 0/0, is   *)
(* kept as the flag velocity.nan.                                          *)
(***************************************************************************)
EXTENDS Integers, Sequences, FiniteSets, TLC

VARIABLES
    variant,        \* "main" (src/main.js) or "part_000" (src/unnamed/part_000)
    AUDIO_FILE,     \* TRUE: an audio file is configured; FALSE: melody fallback
    arenaRect,      \* [left, top, width, height]
    mouse,          \* [null, x, y]; x = y = 0 stand for null when null is TRUE
    pos,            \* [x, y]
    velocity,       \* [x, y, nan]
    audioReady,
    audioContext,   \* Null or [kind, id, state]
    gainNode,       \* Null or [kind, id, value, target]
    filterNode,     \* Null or [kind, id, frequency]   (main.js only)
    oscillator,     \* Null or [kind, id, frequency, detune]
    audioElement,   \* Null or [kind, id, loop, playbackRate, paused]
    melodyIndex,    \* 0-based index into MELODY
    melodyTime,
    last,           \* the script's `last`
    clock,          \* the time of startup or of the latest frame callback
    moveOnce,       \* the { once: true } mousemove listener is still registered
    rafPending,     \* number of frame callbacks requested and not yet run
    created,        \* number of audio objects constructed so far
    ticks,          \* number of frame callbacks run
    clicks,         \* number of click events delivered
    op,             \* the handler that ran last
    fr,             \* the locals of the last tick(dt)
    fn              \* argument/result slots of the pure-function specifications

vars == <<variant, AUDIO_FILE, arenaRect, mouse, pos, velocity, audioReady,
          audioContext, gainNode, filterNode, oscillator, audioElement,
          melodyIndex, melodyTime, last, clock, moveOnce, rafPending,
          created, ticks, clicks, op, fr, fn>>

----------------------------------------------------------------------------
(* Fixed-point scales. *)
Fixed == [pos |-> 10, dist |-> 1000, unit |-> 1000, time |-> 1000,
          norm |-> 1000, rate |-> 1000, phase |-> 1000000]

(* Bounds of the exploration. *)
MaxTicks == 1
MaxClicks == 1
MaxRunTicks == 3
MaxScenTicks == 11

(* Program constants. *)
PADDING == 40
SPRITE_R_MAIN == 60
SPRITE_R_PART == 16
MAX_SPEED_MAIN == 20000
MAX_SPEED_PART == 7000
MIN_DISTANCE == 8
SPEED_CURVE == 1
MOVING_THRESHOLD == 5
AUDIO_GAIN == 200
FILTER_MIN_HZ == 200
FILTER_MAX_HZ == 8000
PLAYBACK_RATE_MIN == 300
PLAYBACK_RATE_MAX == 2500
PITCH_CENTS_PER_PX_S == -800
PLAYBACK_RATE_PER_PX_S == -3
MELODY == <<26163, 32963, 39200, 52325, 39200, 32963, 26163, 19600>>
MELODY_STEP_DURATION == 250000
EPSILON == 1
DAMPING == 900
DT_CAP == 100
RATE_FLOOR == 250
RATE_CEIL == 4000
GAIN_INITIAL == 0
RATE_DEFAULT == 1000
CENTS_PER_OCTAVE == 1200

SPRITE_R == IF variant = "main" THEN SPRITE_R_MAIN ELSE SPRITE_R_PART
MAX_SPEED == IF variant = "main" THEN MAX_SPEED_MAIN ELSE MAX_SPEED_PART

Null == [kind |-> "null"]

----------------------------------------------------------------------------
(* Arithmetic of the fixed-point representation. *)
Min(a, b) == IF a <= b THEN a ELSE b
Max(a, b) == IF a >= b THEN a ELSE b
Abs(a) == IF a < 0 THEN -a ELSE a

\* a / b rounded toward zero (b > 0)
Quot(a, b) == IF a >= 0 THEN a \div b ELSE -((-a) \div b)

\* the r in lo..hi with (r * step)^2 <= n < ((r + 1) * step)^2
SqrtSearch(n, lo, hi, step) ==
    CHOOSE r \in lo..hi :
        /\ (r * step) * (r * step) <= n
        /\ ((r + 1) * step) * ((r + 1) * step) > n

\* Math.sqrt on a non-negative integer below 2^30, rounded down: the multiple of
\* 256 below the root first, then the root
Sqrt(n) ==
    LET coarse == SqrtSearch(n, 0, 127, 256) * 256
    IN SqrtSearch(n, coarse, coarse + 255, 1)

RECURSIVE Pow(_, _)
\* Math.pow(b, e) for a natural exponent e
Pow(b, e) == IF e = 0 THEN 1 ELSE b * Pow(b, e - 1)

Px(n) == n * Fixed.pos

----------------------------------------------------------------------------
(* Geometry: the movable sub-rectangle, as tick(dt) and the resize listener *)
(* each compute it.                                                         *)
TickMinX == IF variant = "main" THEN Px(PADDING + SPRITE_R) ELSE Px(PADDING)
TickMinY == IF variant = "main" THEN Px(PADDING + SPRITE_R) ELSE Px(PADDING)
TickMaxX(rect) ==
    IF variant = "main" THEN rect.width - Px(PADDING) - Px(SPRITE_R)
                        ELSE rect.width - Px(PADDING) - Px(SPRITE_R * 2)
TickMaxY(rect) ==
    IF variant = "main" THEN rect.height - Px(PADDING) - Px(SPRITE_R)
                        ELSE rect.height - Px(PADDING) - Px(SPRITE_R * 2)

ResizeMinX == IF variant = "main" THEN Px(PADDING + SPRITE_R) ELSE Px(PADDING)
ResizeMinY == IF variant = "main" THEN Px(PADDING + SPRITE_R) ELSE Px(PADDING)
\* Faulty variant of ResizeMaxX: the sprite radius is left out.
ResizeMaxX_NoRadius(rect) == rect.width - Px(PADDING)

ResizeMaxX(rect) ==
    IF variant = "main" THEN rect.width - Px(PADDING) - Px(SPRITE_R)
                        ELSE rect.width - Px(PADDING) - Px(SPRITE_R * 2)
ResizeMaxY(rect) ==
    IF variant = "main" THEN rect.height - Px(PADDING) - Px(SPRITE_R)
                        ELSE rect.height - Px(PADDING) - Px(SPRITE_R * 2)

\* Faulty variant of Clamp: the lower bound is not applied.
Clamp_NoFloor(lo, hi, v) == Min(hi, v)

\* Math.max(lo, Math.min(hi, v))
Clamp(lo, hi, v) == Max(lo, Min(hi, v))

\* setSpritePosition(x, y): stores the position (the style writes are the render)
setSpritePosition(x, y) == [x |-> x, y |-> y]

\* initSpritePosition()
initSpritePosition(v, rect) ==
    IF v = "main"
    THEN setSpritePosition(rect.width \div 2, rect.height \div 2)
    ELSE setSpritePosition(rect.width \div 2 - Px(SPRITE_R_PART),
                           rect.height \div 2 - Px(SPRITE_R_PART))

----------------------------------------------------------------------------
(* Motion: the locals of tick(dt). *)

\* Math.sqrt(dx * dx + dy * dy) || 0.001, in distance units
Dist(dx, dy) ==
    LET d == Sqrt(dx * dx + dy * dy) * (Fixed.dist \div Fixed.pos)
    IN IF d = 0 THEN EPSILON ELSE d

\* Faulty variant of FleeSpeed: dist <= MIN_DISTANCE instead of dist < MIN_DISTANCE.
FleeSpeed_Closed(dist) ==
    IF dist <= MIN_DISTANCE * Fixed.dist THEN 0
    ELSE Min(MAX_SPEED,
             (MAX_SPEED * Pow(MIN_DISTANCE * Fixed.dist, SPEED_CURVE))
                 \div Pow(dist, SPEED_CURVE))

\* Faulty variant of FleeSpeed: no dead zone below MIN_DISTANCE.
FleeSpeed_NoDeadZone(dist) ==
    Min(MAX_SPEED,
        (MAX_SPEED * Pow(MIN_DISTANCE * Fixed.dist, SPEED_CURVE))
            \div Pow(dist, SPEED_CURVE))

\* dist < MIN_DISTANCE ? 0 : Math.min(MAX_SPEED, MAX_SPEED * MIN_DISTANCE^c / dist^c)
FleeSpeed(dist) ==
    IF dist < MIN_DISTANCE * Fixed.dist THEN 0
    ELSE Min(MAX_SPEED,
             (MAX_SPEED * Pow(MIN_DISTANCE * Fixed.dist, SPEED_CURVE))
                 \div Pow(dist, SPEED_CURVE))

\* Faulty variant of Unit: the vector points from the entity to the pointer.
Unit_Toward(dx, dist) == Quot((-dx) * (Fixed.dist \div Fixed.pos) * Fixed.unit, dist)

\* dx / dist, in unit-vector units
Unit(dx, dist) == Quot(dx * (Fixed.dist \div Fixed.pos) * Fixed.unit, dist)

\* Faulty variant of Displacement: the step is taken against the unit vector.
Displacement_Reversed(u, speed, dt) ==
    Quot(-(u * speed * dt), (Fixed.unit * Fixed.time) \div Fixed.pos)

\* u * speed * dt, as a displacement in position units
Displacement(u, speed, dt) ==
    Quot(u * speed * dt, (Fixed.unit * Fixed.time) \div Fixed.pos)

\* (newX - pos.x) / dt, in px/s; 0/0 is NaN
Rate(delta, dt) == IF dt = 0 THEN 0 ELSE Quot(delta * (Fixed.time \div Fixed.pos), dt)

\* Faulty variant of Damp: the velocity is kept.
Damp_Keep(v) == v

\* v *= 0.9
Damp(v) == Quot(v * DAMPING, Fixed.rate)

\* the branch condition of tick: mouse.x != null && mouse.y != null &&
\* arenaRect.width && arenaRect.height
Tracked == ~mouse.null /\ arenaRect.width # 0 /\ arenaRect.height # 0

CentreX == IF variant = "main" THEN pos.x ELSE pos.x + Px(SPRITE_R)
CentreY == IF variant = "main" THEN pos.y ELSE pos.y + Px(SPRITE_R)

\* The motion half of tick(dt): the locals and the new pos and velocity.
Motion(dt) ==
    IF Tracked
    THEN LET dx == CentreX - mouse.x
             dy == CentreY - mouse.y
             Moved(dist, newX, newY) ==
                 [tracked |-> TRUE, dist |-> dist, speed |-> FleeSpeed(dist),
                  ux |-> Unit(dx, dist), uy |-> Unit(dy, dist),
                  newX |-> newX, newY |-> newY,
                  velocity |-> [x |-> Rate(newX - pos.x, dt),
                                y |-> Rate(newY - pos.y, dt),
                                nan |-> (dt = 0)],
                  pos |-> setSpritePosition(
                              Clamp(TickMinX, TickMaxX(arenaRect), newX),
                              Clamp(TickMinY, TickMaxY(arenaRect), newY))]
             \* newX = pos.x + ux * speed * dt, and newY alike
             New(p, d, dist) ==
                 p + Displacement(Unit(d, dist), FleeSpeed(dist), dt)
             \* dist, newX and newY, each computed once
         IN CHOOSE m \in
                UNION {{Moved(dist, newX, newY) :
                            newX \in {New(pos.x, dx, dist)},
                            newY \in {New(pos.y, dy, dist)}} :
                       dist \in {Dist(dx, dy)}} : TRUE
    ELSE [tracked |-> FALSE, dist |-> 0, speed |-> 0,
          ux |-> 0, uy |-> 0, newX |-> pos.x, newY |-> pos.y,
          velocity |-> [x |-> Damp(velocity.x), y |-> Damp(velocity.y),
                        nan |-> velocity.nan],
          pos |-> setSpritePosition(pos.x, pos.y)]

----------------------------------------------------------------------------
(* Audio graph.  The handlers below work on the record of the audio globals *)
(* and return the record they leave behind.                                 *)
Audio == [ready |-> audioReady, context |-> audioContext, gain |-> gainNode,
          filter |-> filterNode, osc |-> oscillator, element |-> audioElement,
          created |-> created]

\* Faulty variant of buildGraph: the flag is set and nothing is constructed.
buildGraph_ReadyOnly(a) == [a EXCEPT !.ready = TRUE]

\* initAudio() past its guard: the construction of the graph
buildGraph(a) ==
         LET n == a.created
             ctx == [kind |-> "AudioContext", id |-> n + 1, state |-> "suspended"]
             gain == [kind |-> "GainNode", id |-> n + 2, value |-> GAIN_INITIAL,
                      target |-> GAIN_INITIAL]
             hasFilter == (variant = "main")
             filter == IF hasFilter
                       THEN [kind |-> "BiquadFilterNode", id |-> n + 3,
                             frequency |-> (FILTER_MIN_HZ + FILTER_MAX_HZ) \div 2]
                       ELSE Null
             m == IF hasFilter THEN n + 3 ELSE n + 2
         IN IF AUDIO_FILE
            THEN \* the element and its MediaElementSource
                 [ready |-> TRUE, context |-> ctx, gain |-> gain, filter |-> filter,
                  osc |-> a.osc,
                  element |-> [kind |-> "Audio", id |-> m + 1, loop |-> TRUE,
                               playbackRate |-> RATE_DEFAULT, paused |-> TRUE,
                               plays |-> 0],
                  created |-> m + 2]
            ELSE [ready |-> TRUE, context |-> ctx, gain |-> gain, filter |-> filter,
                  osc |-> [kind |-> "OscillatorNode", id |-> m + 1,
                           frequency |-> MELODY[1], detune |-> 0],
                  element |-> a.element,
                  created |-> m + 1]

\* Faulty variant of initAudio: the guard is missing.
initAudio_NoGuard(a) == buildGraph(a)

\* Faulty variant of initAudio: a second call clears the ready flag.
initAudio_Resets(a) ==
    IF a.context # Null THEN [a EXCEPT !.ready = FALSE] ELSE buildGraph(a)

\* initAudio(): if (audioContext) return; ...
initAudio(a) == IF a.context # Null THEN a ELSE buildGraph(a)

\* resumeAudio(): if (audioContext?.state === 'suspended') audioContext.resume()
resumeAudio(a) ==
    IF a.context # Null /\ a.context.state = "suspended"
    THEN [a EXCEPT !.context.state = "running"]
    ELSE a

\* if (audioElement) audioElement.play().catch(() => {}): the platform starts the
\* playback (started) or rejects it, and the rejection is swallowed; plays counts
\* the calls of play() on the element
play(a, started) ==
    IF a.element # Null
    THEN [a EXCEPT !.element.plays = @ + 1,
                   !.element.paused = @ /\ ~started]
    ELSE a

\* Faulty variant of tryStartAudio: the playback start is not attempted.
tryStartAudio_NoPlay(a, started) == resumeAudio(initAudio(a))

\* tryStartAudio()
tryStartAudio(a, started) == play(resumeAudio(initAudio(a)), started)

\* Faulty variant of HypotExceeds: only the horizontal component is compared.
HypotExceeds_XOnly(vx, vy, t) == vx > t

\* Math.hypot(vx, vy) > t, exactly: both sides are non-negative
HypotExceeds(vx, vy, t) == vx * vx + vy * vy > t * t

\* Faulty variant of IsMoving: the speed is not looked at.
IsMoving_WhenReady(ready, v) == ready

\* isMoving = audioReady && speedMag > MOVING_THRESHOLD (a comparison with NaN is false)
IsMoving(ready, v) ==
    ready /\ ~v.nan /\ HypotExceeds(v.x, v.y, MOVING_THRESHOLD)

\* Math.max(0, Math.min(1, range > 0 ? (p - min) / range : 0)), main.js normX
NormX(p, rect) ==
    LET range == TickMaxX(rect) - TickMinX
    IN Clamp(0, Fixed.norm,
             IF range > 0 THEN Quot((p - TickMinX) * Fixed.norm, range) ELSE 0)

\* Faulty variant of NormY: the axis is not inverted.
NormY_NotInverted(p, rect) ==
    LET range == TickMaxY(rect) - TickMinY
    IN Clamp(0, Fixed.norm,
             IF range > 0 THEN Quot((p - TickMinY) * Fixed.norm, range) ELSE 0)

\* Math.max(0, Math.min(1, range > 0 ? 1 - (p - min) / range : 0)), main.js normY
NormY(p, rect) ==
    LET range == TickMaxY(rect) - TickMinY
    IN Clamp(0, Fixed.norm,
             IF range > 0 THEN Fixed.norm - Quot((p - TickMinY) * Fixed.norm, range)
                          ELSE 0)

\* FILTER_MIN_HZ + normX * (FILTER_MAX_HZ - FILTER_MIN_HZ)
FilterTarget(normX) ==
    FILTER_MIN_HZ + Quot(normX * (FILTER_MAX_HZ - FILTER_MIN_HZ), Fixed.norm)

\* main.js: speedFactor = PLAYBACK_RATE_MIN + normY * (PLAYBACK_RATE_MAX - PLAYBACK_RATE_MIN)
SpeedFactorMain(normY) ==
    PLAYBACK_RATE_MIN + Quot(normY * (PLAYBACK_RATE_MAX - PLAYBACK_RATE_MIN), Fixed.norm)

\* part_000: detuneCents = -velocity.x * PITCH_CENTS_PER_PX_S
DetuneCents(vx) == Quot((-vx) * PITCH_CENTS_PER_PX_S, Fixed.rate)

\* part_000: speedFactor = clamp(1 + velocity.y * PLAYBACK_RATE_PER_PX_S)
SpeedFactorPart(vy) ==
    Max(PLAYBACK_RATE_MIN,
        Min(PLAYBACK_RATE_MAX, Fixed.rate + vy * PLAYBACK_RATE_PER_PX_S))

\* part_000: Math.pow(2, cents / 1200) in rate units; exact at whole octaves and
\* interpolated linearly inside an octave
PitchFactor(cents) ==
    LET q == cents \div CENTS_PER_OCTAVE
        r == cents % CENTS_PER_OCTAVE
        frac == Fixed.rate + (r * Fixed.rate) \div CENTS_PER_OCTAVE
    IN IF q >= 0 THEN Pow(2, q) * frac ELSE frac \div Pow(2, -q)

\* Faulty variant of PlaybackRate: the rate is written as computed.
PlaybackRate_Unclamped(rate) == rate

\* audioElement.playbackRate = Math.max(0.25, Math.min(4, rate))
PlaybackRate(rate) == Max(RATE_FLOOR, Min(RATE_CEIL, rate))

\* Faulty variant of MelodyAdvance: the phase is not reduced when the index steps.
MelodyAdvance_KeepsPhase(index, time, dt, speedFactor) ==
    LET t == time + dt * speedFactor * (Fixed.phase \div (Fixed.time * Fixed.rate))
    IN [index |-> (index + t \div MELODY_STEP_DURATION) % Len(MELODY), time |-> t]

\* melodyTime += dt * speedFactor; while (melodyTime >= STEP) { ... }
MelodyAdvance(index, time, dt, speedFactor) ==
    LET t == time + dt * speedFactor * (Fixed.phase \div (Fixed.time * Fixed.rate))
        k == t \div MELODY_STEP_DURATION
    IN [index |-> (index + k) % Len(MELODY), time |-> t % MELODY_STEP_DURATION]

\* The targets the isMoving branch of tick computes from pos and velocity:
\* main.js maps the position, part_000 the velocity and has no filter.
Targets(p, v, rect) ==
    IF variant = "main"
    THEN LET speedFactor == SpeedFactorMain(NormY(p.y, rect))
         IN [hasFilter |-> TRUE, filter |-> FilterTarget(NormX(p.x, rect)),
             speedFactor |-> speedFactor, rate |-> PlaybackRate(speedFactor),
             detune |-> 0]
    ELSE LET speedFactor == SpeedFactorPart(v.y)
             detuneCents == DetuneCents(v.x)
         IN [hasFilter |-> FALSE, filter |-> 0,
             speedFactor |-> speedFactor,
             rate |-> PlaybackRate(Quot(speedFactor * PitchFactor(detuneCents),
                                        Fixed.rate)),
             detune |-> detuneCents]

\* The audio half of tick(dt), run on the pos and velocity the motion half left.
Sound(a, p, v, dt) ==
    LET isMoving == IsMoving(a.ready, v)
        a1 == IF a.ready
              THEN [resumeAudio(a) EXCEPT
                        !.gain.target = IF isMoving THEN AUDIO_GAIN ELSE 0]
              ELSE a
        t == Targets(p, v, arenaRect)
        a2 == IF t.hasFilter THEN [a1 EXCEPT !.filter.frequency = t.filter] ELSE a1
        mel == MelodyAdvance(melodyIndex, melodyTime, dt, t.speedFactor)
    IN IF ~isMoving
       THEN [audio |-> a1, isMoving |-> FALSE,
             melodyIndex |-> melodyIndex, melodyTime |-> melodyTime]
       ELSE IF a2.element # Null
       THEN [audio |-> [a2 EXCEPT !.element.playbackRate = t.rate],
             isMoving |-> TRUE,
             melodyIndex |-> melodyIndex, melodyTime |-> melodyTime]
       ELSE [audio |-> [a2 EXCEPT
                 !.osc.detune = IF variant = "main" THEN @ ELSE t.detune,
                 !.osc.frequency = MELODY[mel.index + 1]],
             isMoving |-> TRUE,
             melodyIndex |-> mel.index, melodyTime |-> mel.time]

----------------------------------------------------------------------------
(* Inputs of the exploration. *)
Rect(l, t, w, h) ==
    [left |-> Px(l), top |-> Px(t), width |-> Px(w), height |-> Px(h)]

\* arena.getBoundingClientRect(): a full-size arena, a smaller one, one too small
\* to hold the margins, and an arena that is not laid out
Full == Rect(10, 20, 800, 600)
Half == Rect(10, 20, 400, 300)
Tiny == Rect(10, 20, 150, 120)
Flat == Rect(10, 20, 0, 0)
Rects == {Full, Half, Tiny, Flat}

\* e.clientX, e.clientY of the mousemove that puts the pointer at (x, y) of an
\* arena whose origin is (10, 20)
Client(x, y) == [x |-> Px(x + 10), y |-> Px(y + 20)]
AtCentre == Client(400, 300)
AtMinDistance == Client(408, 300)
AtRight == Client(780, 300)
Outside == Client(-20, 650)
Pointers == {AtCentre, AtMinDistance, AtRight, Outside}

\* now - last of a frame callback, in ms
Elapsed == {0, 16, 5000}

FrNone == [kind |-> "none", elapsed |-> 0, dt |-> 0, dist |-> 0, speed |-> 0,
           ux |-> 0, uy |-> 0, newX |-> 0, newY |-> 0,
           pos0 |-> [x |-> 0, y |-> 0],
           vel0 |-> [x |-> 0, y |-> 0, nan |-> FALSE],
           isMoving |-> FALSE, gainSet |-> FALSE, prevOp |-> "none",
           coast |-> 0, run0 |-> [x |-> 0, y |-> 0, nan |-> FALSE]]

FnNone == [kind |-> "none"]

\* The state after the script has run: the globals' initialisers, then
\* updateArenaRect(), initSpritePosition(), last = performance.now() and the first
\* requestAnimationFrame(loop).
InitWith(variants, files, rects, fns) ==
    /\ variant \in variants
    /\ AUDIO_FILE \in files
    /\ arenaRect \in rects
    /\ mouse = [null |-> TRUE, x |-> 0, y |-> 0]
    /\ pos = initSpritePosition(variant, arenaRect)
    /\ velocity = [x |-> 0, y |-> 0, nan |-> FALSE]
    /\ audioReady = FALSE
    /\ audioContext = Null
    /\ gainNode = Null
    /\ filterNode = Null
    /\ oscillator = Null
    /\ audioElement = Null
    /\ melodyIndex = 0
    /\ melodyTime = 0
    /\ clock = 0
    /\ last = clock
    /\ moveOnce = TRUE
    /\ rafPending = 1
    /\ created = 0
    /\ ticks = 0
    /\ clicks = 0
    /\ op = "init"
    /\ fr = FrNone
    /\ fn \in fns

Init == InitWith({"main", "part_000"}, BOOLEAN, Rects, {FnNone})

SetAudio(a) ==
    /\ audioReady' = a.ready
    /\ audioContext' = a.context
    /\ gainNode' = a.gain
    /\ filterNode' = a.filter
    /\ oscillator' = a.osc
    /\ audioElement' = a.element
    /\ created' = a.created

audioVars == <<audioReady, audioContext, gainNode, filterNode, oscillator,
               audioElement, created>>

----------------------------------------------------------------------------
(* Event handlers. *)

\* arena 'click' -> tryStartAudio
onClick ==
    /\ \E started \in BOOLEAN : SetAudio(tryStartAudio(Audio, started))
    /\ clicks' = clicks + 1
    /\ op' = "click"
    /\ fr' = FrNone
    /\ UNCHANGED <<variant, AUDIO_FILE, arenaRect, mouse, pos, velocity,
                   melodyIndex, melodyTime, last, clock, moveOnce, rafPending,
                   ticks, fn>>

\* arena 'mousemove': first the { once: true } tryStartAudio listener, when it is
\* still registered, then the listener that stores the pointer
onMouseMove(p) ==
    /\ IF moveOnce
       THEN \E started \in BOOLEAN : SetAudio(tryStartAudio(Audio, started))
       ELSE UNCHANGED audioVars
    /\ moveOnce' = FALSE
    /\ mouse' = [null |-> FALSE,
                 x |-> p.x - arenaRect.left, y |-> p.y - arenaRect.top]
    /\ op' = "mousemove"
    /\ fr' = FrNone
    /\ UNCHANGED <<variant, AUDIO_FILE, arenaRect, pos, velocity,
                   melodyIndex, melodyTime, last, clock, rafPending, ticks,
                   clicks, fn>>

\* Faulty variant of onMouseLeave: the handler also stops the entity.
onMouseLeave_StopsEntity ==
    /\ mouse' = [null |-> TRUE, x |-> 0, y |-> 0]
    /\ velocity' = [x |-> 0, y |-> 0, nan |-> FALSE]
    /\ op' = "mouseleave"
    /\ fr' = FrNone
    /\ UNCHANGED <<variant, AUDIO_FILE, arenaRect, pos, audioVars,
                   melodyIndex, melodyTime, last, clock, moveOnce, rafPending,
                   ticks, clicks, fn>>

\* arena 'mouseleave'
onMouseLeave ==
    /\ mouse' = [null |-> TRUE, x |-> 0, y |-> 0]
    /\ op' = "mouseleave"
    /\ fr' = FrNone
    /\ UNCHANGED <<variant, AUDIO_FILE, arenaRect, pos, velocity, audioVars,
                   melodyIndex, melodyTime, last, clock, moveOnce, rafPending,
                   ticks, clicks, fn>>

\* window 'resize': updateArenaRect(), clamp pos, setSpritePosition
onResize(r) ==
    /\ arenaRect' = r
    /\ pos' = setSpritePosition(Clamp(ResizeMinX, ResizeMaxX(r), pos.x),
                                Clamp(ResizeMinY, ResizeMaxY(r), pos.y))
    /\ op' = "resize"
    /\ fr' = FrNone
    /\ UNCHANGED <<variant, AUDIO_FILE, mouse, velocity, audioVars,
                   melodyIndex, melodyTime, last, clock, moveOnce, rafPending,
                   ticks, clicks, fn>>

----------------------------------------------------------------------------
(* The frame loop. *)

\* Faulty variant of LoopDt: the cap is missing.
LoopDt_NoCap(now, prev) == ((now - prev) * Fixed.time) \div 1000

\* dt = Math.min((now - last) / 1000, 0.1)
LoopDt(now, prev) == Min(((now - prev) * Fixed.time) \div 1000, DT_CAP)

\* tick(dt): motion, render, gain, mapper
tick(dt, elapsed) ==
    \* m and s: the values the two halves compute, each computed once
    \E m \in {Motion(dt)} : \E s \in {Sound(Audio, m.pos, m.velocity, dt)} :
       /\ pos' = m.pos
       /\ velocity' = m.velocity
       /\ SetAudio(s.audio)
       /\ melodyIndex' = s.melodyIndex
       /\ melodyTime' = s.melodyTime
       /\ fr' = [kind |-> IF m.tracked THEN "tracked" ELSE "coast",
                 elapsed |-> elapsed, dt |-> dt,
                 dist |-> m.dist, speed |-> m.speed, ux |-> m.ux, uy |-> m.uy,
                 newX |-> m.newX, newY |-> m.newY,
                 pos0 |-> pos, vel0 |-> velocity,
                 isMoving |-> s.isMoving, gainSet |-> audioReady,
                 prevOp |-> IF op = "resize" THEN "resize" ELSE "other",
                 coast |-> IF m.tracked THEN 0 ELSE fr.coast + 1,
                 run0 |-> IF m.tracked THEN FrNone.run0
                          ELSE IF fr.coast = 0 THEN velocity ELSE fr.run0]

\* Faulty variant of requestAnimationFrame: no callback is queued.
requestAnimationFrame_Dropped(pending) == pending

\* requestAnimationFrame(loop): one more callback is pending
requestAnimationFrame(pending) == pending + 1

\* loop(now): one frame callback, which requests its successor
loop(elapsed) ==
    LET now == clock + elapsed
    IN /\ rafPending > 0
       /\ tick(LoopDt(now, last), elapsed)
       /\ last' = now
       /\ clock' = now
       /\ rafPending' = requestAnimationFrame(rafPending - 1)
       /\ ticks' = ticks + 1
       /\ op' = "tick"
       /\ UNCHANGED <<variant, AUDIO_FILE, arenaRect, mouse, moveOnce, clicks, fn>>

----------------------------------------------------------------------------
(* Spec: every handler, on every arena and pointer above, up to the last frame *)
(* of the exploration.                                                        *)
Click == ticks < MaxTicks /\ clicks < MaxClicks /\ onClick
MouseMove == ticks < MaxTicks /\ \E p \in Pointers : onMouseMove(p)
MouseLeave == ticks < MaxTicks /\ onMouseLeave
Resize == ticks < MaxTicks /\ \E r \in Rects : onResize(r)
Frame == ticks < MaxTicks /\ \E e \in Elapsed : loop(e)

Next == Click \/ MouseMove \/ MouseLeave \/ Resize \/ Frame

Spec == Init /\ [][Next]_vars

----------------------------------------------------------------------------
(* SpecRun: several frames in a row in the full-size arena, which may collapse *)
(* to the arena that is not laid out, with the pointer coming and going.       *)
RunPointers == {AtRight, AtCentre}
RunRects == {Full, Flat}
RunElapsed == {16, 5000}

InitRun == InitWith({"main", "part_000"}, BOOLEAN, {Full}, {FnNone})

RunMouseMove == \E p \in RunPointers : onMouseMove(p)
RunMouseLeave == onMouseLeave
RunResize == \E r \in RunRects : onResize(r)
RunFrame == ticks < MaxRunTicks /\ \E e \in RunElapsed : loop(e)

NextRun == RunMouseMove \/ RunMouseLeave \/ RunResize \/ RunFrame

SpecRun == InitRun /\ [][NextRun]_vars

----------------------------------------------------------------------------
(* SpecScen: the pointer is put at (780, 300) of the 800x600 arena before the *)
(* first frame and held there while frames run.                               *)
ScenElapsed == {0, 16, 5000}

InitScen == InitWith({"main", "part_000"}, {TRUE}, {Full}, {FnNone})

ScenMouseMove == mouse.null /\ ticks = 0 /\ onMouseMove(AtRight)
ScenFrame == ticks < MaxScenTicks /\ \E e \in ScenElapsed : loop(e)

NextScen == ScenMouseMove \/ ScenFrame

SpecScen == InitScen /\ [][NextScen]_vars

----------------------------------------------------------------------------
(* SpecLive: every handler at any time between the frames of a short run, in *)
(* the full-size arena, which may shrink; a pending frame callback is run.   *)
MaxLiveTicks == 2

LivePointers == {AtRight, AtCentre}
LiveRects == {Half, Tiny}
LiveElapsed == {0, 16, 5000}

InitLive == InitWith({"main", "part_000"}, BOOLEAN, {Full}, {FnNone})

LiveClick == clicks < MaxClicks /\ onClick
LiveMouseMove == \E p \in LivePointers : onMouseMove(p)
LiveMouseLeave == onMouseLeave
LiveResize == \E r \in LiveRects : onResize(r)
LiveFrame == ticks < MaxLiveTicks /\ \E e \in LiveElapsed : loop(e)

NextLive == LiveClick \/ LiveMouseMove \/ LiveMouseLeave \/ LiveResize \/ LiveFrame

SpecLive == InitLive /\ [][NextLive]_vars

----------------------------------------------------------------------------
(* SpecLoop: the frame loop under events that never cease; the host runs a   *)
(* pending animation-frame callback.                                         *)
MaxLoopTicks == 2

LoopPointers == {AtRight}
LoopRects == {Half}
LoopElapsed == {16}

InitLoop == InitWith({"main", "part_000"}, BOOLEAN, {Full}, {FnNone})

LoopClick == clicks < MaxClicks /\ onClick
LoopMouseMove == \E p \in LoopPointers : onMouseMove(p)
LoopMouseLeave == onMouseLeave
LoopResize == \E r \in LoopRects : onResize(r)
LoopFrame == ticks < MaxLoopTicks /\ \E e \in LoopElapsed : loop(e)

NextLoop == LoopClick \/ LoopMouseMove \/ LoopMouseLeave \/ LoopResize \/ LoopFrame

\* requestAnimationFrame: a pending callback is run
SpecLoop == InitLoop /\ [][NextLoop]_vars /\ WF_vars(LoopFrame)

----------------------------------------------------------------------------
(* SpecSpeed: FleeSpeed applied to two distances. *)
Distances == {EPSILON, 4000, 7999, 8000, 8001, 9000, 16000, 64000, 380000,
              1000000}

InitSpeed ==
    InitWith({"main", "part_000"}, {TRUE}, {Full},
             [kind : {"distances"}, d1 : Distances, d2 : Distances])

ApplyFleeSpeed ==
    /\ fn.kind = "distances"
    /\ fn' = [kind |-> "speeds", d1 |-> fn.d1, d2 |-> fn.d2,
              s1 |-> FleeSpeed(fn.d1), s2 |-> FleeSpeed(fn.d2)]
    /\ UNCHANGED <<variant, AUDIO_FILE, arenaRect, mouse, pos, velocity, audioVars,
                   melodyIndex, melodyTime, last, clock, moveOnce, rafPending,
                   ticks, clicks, op, fr>>

NextSpeed == ApplyFleeSpeed

SpecSpeed == InitSpeed /\ [][NextSpeed]_vars

----------------------------------------------------------------------------
(* SpecMap: the mapper's targets for two entity states in one arena. *)
MapRects == {Full, Half}

\* positions at the bounds and inside the movable sub-rectangle of the arena,
\* each with a velocity
Entities(rect) ==
    {[pos |-> [x |-> x, y |-> y], velocity |-> [x |-> v[1], y |-> v[2], nan |-> FALSE]] :
        x \in {TickMinX, (TickMinX + TickMaxX(rect)) \div 2, TickMaxX(rect)},
        y \in {TickMinY, TickMaxY(rect)},
        v \in {<<-300, 200>>, <<100, -400>>}}

MapArgs ==
    UNION {[kind : {"entities"}, rect : {r}, a : Entities(r), b : Entities(r)] :
               r \in MapRects}

InitMap == InitWith({"main", "part_000"}, {TRUE}, {Full}, MapArgs)

ApplyTargets ==
    /\ fn.kind = "entities"
    /\ fn' = [kind |-> "targets", rect |-> fn.rect, a |-> fn.a, b |-> fn.b,
              ta |-> Targets(fn.a.pos, fn.a.velocity, fn.rect),
              tb |-> Targets(fn.b.pos, fn.b.velocity, fn.rect)]
    /\ UNCHANGED <<variant, AUDIO_FILE, arenaRect, mouse, pos, velocity, audioVars,
                   melodyIndex, melodyTime, last, clock, moveOnce, rafPending,
                   ticks, clicks, op, fr>>

NextMap == ApplyTargets

SpecMap == InitMap /\ [][NextMap]_vars

----------------------------------------------------------------------------
(* Properties.                                                              *)

\* margin = padding plus the entity half-extent
Margin == Px(PADDING + SPRITE_R)

\* the entity centre lies in [margin, extent - margin] on both axes
InMovable ==
    /\ Margin <= CentreX /\ CentreX <= arenaRect.width - Margin
    /\ Margin <= CentreY /\ CentreY <= arenaRect.height - Margin

\* the arena is wide and high enough for the movable sub-rectangle to exist
Roomy == arenaRect.width >= 2 * Margin /\ arenaRect.height >= 2 * Margin

\* C1 as stated: after every frame step, in every arena, the entity position lies
\* in [margin, extent - margin] on both axes.
C1_AnyRegion == op = "tick" => InMovable

\* C1, amended: after every frame step in an arena at least two margins wide and
\* high, the entity position lies in [margin, extent - margin] on both axes,
\* whether the pointer is inside the arena, outside it or absent, for every dt.
C1_ClampedInRoomyRegion == (op = "tick" /\ Roomy) => InMovable

\* C1 witness: a tracked step whose proposed position was outside the movable
\* sub-rectangle and was clamped.
C1_Witness ==
    /\ op = "tick" /\ Roomy /\ fr.kind = "tracked"
    /\ fr.newX # pos.x /\ InMovable

\* the speed the claim gives for distance d: 0 below MIN_DISTANCE, otherwise
\* min(MAX_SPEED, MAX_SPEED * MIN_DISTANCE^c / d^c) with c = SPEED_CURVE = 1
ClaimedSpeed(d) ==
    LET ratio == (MAX_SPEED * MIN_DISTANCE * Fixed.dist) \div d
    IN IF d < MIN_DISTANCE * Fixed.dist THEN 0
       ELSE IF ratio > MAX_SPEED THEN MAX_SPEED ELSE ratio

\* C2: the flee speed is 0 for d < MIN_DISTANCE and min(MAX_SPEED, MAX_SPEED *
\* MIN_DISTANCE^c / d^c) otherwise; for d >= MIN_DISTANCE it never exceeds
\* MAX_SPEED, is non-increasing in d, and at d = MIN_DISTANCE it is MAX_SPEED.
C2_FleeSpeedCurve ==
    fn.kind = "speeds" =>
        /\ fn.s1 = ClaimedSpeed(fn.d1)
        /\ fn.s2 = ClaimedSpeed(fn.d2)
        /\ (fn.d1 < MIN_DISTANCE * Fixed.dist => fn.s1 = 0)
        /\ (fn.d1 >= MIN_DISTANCE * Fixed.dist => fn.s1 <= MAX_SPEED /\ fn.s1 > 0)
        /\ (fn.d1 = MIN_DISTANCE * Fixed.dist => fn.s1 = MAX_SPEED)
        /\ ((MIN_DISTANCE * Fixed.dist <= fn.d1 /\ fn.d1 <= fn.d2) => fn.s2 <= fn.s1)

\* C2 witness: the speed at exactly MIN_DISTANCE is MAX_SPEED and a larger
\* distance gives a strictly smaller speed.
C2_Witness ==
    /\ fn.kind = "speeds"
    /\ fn.d1 = MIN_DISTANCE * Fixed.dist /\ fn.s1 = MAX_SPEED
    /\ fn.d2 > fn.d1 /\ fn.s2 < fn.s1 /\ fn.s2 > 0

\* the Euclidean norm of the stored velocity exceeds MOVING_THRESHOLD
NormExceeds ==
    /\ ~velocity.nan
    /\ velocity.x * velocity.x + velocity.y * velocity.y
           > MOVING_THRESHOLD * MOVING_THRESHOLD

\* C3 as stated: after every frame step isMoving holds iff |velocity| exceeds
\* MOVING_THRESHOLD, and the frame writes the gain target AUDIO_GAIN when
\* isMoving and 0 otherwise, also before the backend is ready.
C3_GainInEveryBackendState ==
    op = "tick" =>
        /\ fr.isMoving <=> NormExceeds
        /\ fr.gainSet
        /\ gainNode # Null
        /\ gainNode.target = IF fr.isMoving THEN AUDIO_GAIN ELSE 0

\* C3, amended: after every frame step isMoving holds iff the backend is ready
\* and |velocity| exceeds MOVING_THRESHOLD; with the backend ready the frame
\* writes the gain target AUDIO_GAIN when isMoving and 0 otherwise; before the
\* backend is ready the frame writes no gain target.
C3_GainWhenReady ==
    op = "tick" =>
        /\ fr.isMoving <=> (audioReady /\ NormExceeds)
        /\ fr.gainSet <=> audioReady
        /\ audioReady =>
              gainNode.target = IF fr.isMoving THEN AUDIO_GAIN ELSE 0
        /\ ~audioReady => gainNode = Null

\* C3 witness: a frame with the backend ready and the entity moving.
C3_Witness ==
    /\ op = "tick" /\ audioReady /\ fr.isMoving /\ NormExceeds
    /\ gainNode.target = AUDIO_GAIN

\* v is 0.9^n times v0, up to the rounding of n fixed-point multiplications
Decayed(v, v0, n) ==
    /\ Abs(v * Pow(10, n) - v0 * Pow(9, n)) < n * Pow(10, n)
    /\ (v0 >= 0 => v >= 0) /\ (v0 <= 0 => v <= 0)

\* C4: a frame step with the pointer absent, or with an arena of zero width or
\* height, multiplies both velocity components by 0.9 and leaves the position
\* unchanged; after n such steps in a row the velocity is 0.9^n times the
\* velocity before them.
C4_CoastDecay ==
    (op = "tick" /\ fr.kind = "coast") =>
        /\ mouse.null \/ arenaRect.width = 0 \/ arenaRect.height = 0
        /\ pos = fr.pos0
        /\ velocity.nan = fr.vel0.nan
        /\ Abs(10 * velocity.x - 9 * fr.vel0.x) < 10
        /\ Abs(10 * velocity.y - 9 * fr.vel0.y) < 10
        /\ Decayed(velocity.x, fr.run0.x, fr.coast)
        /\ Decayed(velocity.y, fr.run0.y, fr.coast)

\* C4 witness: the second pointer-absent step in a row, with a velocity that is
\* still not zero.
C4_Witness ==
    /\ op = "tick" /\ fr.kind = "coast" /\ fr.coast >= 2 /\ mouse.null
    /\ fr.run0.x # 0 /\ velocity.x # 0 /\ velocity.x # fr.run0.x

\* C5: with the pointer held at (780, 300) of the 800x600 arena and the entity
\* started at the centre, a frame step never increases x, keeps the entity at or
\* right of the left bound, leaves it at the left bound once it is there, and
\* stores the pre-clamp displacement divided by dt as the velocity, which is not
\* zero: it is negative for dt > 0, and for dt = 0 it is the quotient 0/0, NaN.
C5_PushedLeftToWall ==
    (op = "tick" /\ fr.kind = "tracked") =>
        /\ pos.x <= fr.pos0.x
        /\ CentreX >= Margin
        /\ (fr.pos0.x = Margin - (CentreX - pos.x) => pos.x = fr.pos0.x)
        /\ pos.x = Max(Margin - (CentreX - pos.x), fr.newX)
        /\ IF fr.dt = 0
           THEN velocity.nan /\ fr.newX = fr.pos0.x
           ELSE /\ ~velocity.nan
                /\ Abs(velocity.x * fr.dt
                         - (fr.newX - fr.pos0.x) * (Fixed.time \div Fixed.pos)) < fr.dt
                /\ velocity.x < 0
                /\ fr.newX < fr.pos0.x

\* C5 witness: a step that starts at the left bound; the position stays and the
\* velocity is not zero.
C5_Witness ==
    /\ op = "tick" /\ fr.kind = "tracked"
    /\ CentreX = Margin /\ pos.x = fr.pos0.x
    /\ fr.newX < pos.x /\ ~velocity.nan /\ velocity.x < 0

\* C6: the dt of a frame step is min(elapsed time since the previous callback,
\* 0.1 s); it never exceeds 0.1 s, and 5 s of elapsed time give 0.1 s.
C6_DtCapped ==
    op = "tick" =>
        /\ fr.dt = (IF fr.elapsed <= 100 THEN fr.elapsed ELSE 100)
        /\ fr.dt <= 100
        /\ (fr.elapsed = 5000 => fr.dt = 100)
        /\ last = clock

\* C6 witness: a second frame callback 5 s after the previous one, stepped by 0.1 s.
C6_Witness == op = "tick" /\ ticks >= 2 /\ fr.elapsed = 5000 /\ fr.dt = 100

\* a pointer-present step in an arena of zero width or height coasts as well
C4_ZeroAreaCase ==
    /\ op = "tick" /\ fr.kind = "coast" /\ ~mouse.null
    /\ arenaRect.width = 0 /\ fr.vel0.x # 0 /\ velocity.x # fr.vel0.x

\* the identity of an audio object (0 for null)
IdOf(o) == IF o = Null THEN 0 ELSE o.id

\* the ready flag and the identities of the constructed graph
Graph == <<audioReady, IdOf(audioContext), IdOf(gainNode), IdOf(filterNode),
           IdOf(oscillator), IdOf(audioElement), created>>

\* a step in which tryStartAudio runs: a click, or the first mousemove
StartsAudio == clicks' = clicks + 1 \/ (moveOnce /\ ~moveOnce')

\* C7: once the backend-start operation has constructed the graph, invoking it
\* again leaves the ready flag and the graph as they are: no second context or
\* node is created.
C7_StartIdempotent ==
    [][(StartsAudio /\ audioContext # Null) =>
           (Graph' = Graph /\ audioReady /\ created' = created)]_vars

\* C7 witness: the backend-start operation has run twice (first mousemove and a
\* click) and the backend is ready.
C7_Witness ==
    /\ audioReady /\ ~moveOnce /\ clicks >= 1
    /\ IdOf(audioContext) = 1 /\ created <= 5

\* C8 as stated: in either script the filter-frequency target is non-decreasing
\* in x, FILTER_MIN_HZ at the left bound and FILTER_MAX_HZ at the right bound,
\* and the playback-rate target is non-increasing in y, PLAYBACK_RATE_MAX at
\* the top bound and PLAYBACK_RATE_MIN at the bottom bound.
C8_MappedFromPosition ==
    fn.kind = "targets" =>
        /\ fn.ta.hasFilter /\ fn.tb.hasFilter
        /\ (fn.a.pos.x <= fn.b.pos.x => fn.ta.filter <= fn.tb.filter)
        /\ (fn.a.pos.x = TickMinX => fn.ta.filter = FILTER_MIN_HZ)
        /\ (fn.a.pos.x = TickMaxX(fn.rect) => fn.ta.filter = FILTER_MAX_HZ)
        /\ (fn.a.pos.y <= fn.b.pos.y => fn.ta.rate >= fn.tb.rate)
        /\ (fn.a.pos.y = TickMinY => fn.ta.rate = PLAYBACK_RATE_MAX)
        /\ (fn.a.pos.y = TickMaxY(fn.rect) => fn.ta.rate = PLAYBACK_RATE_MIN)

\* C8, amended: in main.js the filter-frequency target is non-decreasing in x,
\* FILTER_MIN_HZ at the left bound and FILTER_MAX_HZ at the right bound, and the
\* playback-rate target is non-increasing in y, PLAYBACK_RATE_MAX at the top
\* bound and PLAYBACK_RATE_MIN at the bottom bound; part_000 has no filter and
\* takes its playback rate from the velocity alone.
C8_MappedFromPositionInMain ==
    fn.kind = "targets" =>
        IF variant = "main"
        THEN /\ fn.ta.hasFilter /\ fn.tb.hasFilter
             /\ (fn.a.pos.x <= fn.b.pos.x => fn.ta.filter <= fn.tb.filter)
             /\ (fn.a.pos.x = TickMinX => fn.ta.filter = FILTER_MIN_HZ)
             /\ (fn.a.pos.x = TickMaxX(fn.rect) => fn.ta.filter = FILTER_MAX_HZ)
             /\ (fn.a.pos.y <= fn.b.pos.y => fn.ta.rate >= fn.tb.rate)
             /\ (fn.a.pos.y = TickMinY => fn.ta.rate = PLAYBACK_RATE_MAX)
             /\ (fn.a.pos.y = TickMaxY(fn.rect) => fn.ta.rate = PLAYBACK_RATE_MIN)
        ELSE /\ ~fn.ta.hasFilter /\ ~fn.tb.hasFilter
             /\ (fn.a.velocity = fn.b.velocity => fn.ta.rate = fn.tb.rate)

\* C8 witness: in main.js, an entity further right and lower than another has a
\* strictly higher filter target and a strictly lower playback rate.
C8_Witness ==
    /\ fn.kind = "targets" /\ variant = "main"
    /\ fn.a.pos.x < fn.b.pos.x /\ fn.ta.filter < fn.tb.filter
    /\ fn.a.pos.y < fn.b.pos.y /\ fn.ta.rate > fn.tb.rate

\* the step ran in the 800x600 arena with the pointer at the exact centre of
\* the entity
PointerAtCentre ==
    /\ op = "tick" /\ fr.kind = "tracked"
    /\ arenaRect.width = Px(800) /\ arenaRect.height = Px(600)
    /\ mouse.x = fr.pos0.x + (CentreX - pos.x)
    /\ mouse.y = fr.pos0.y + (CentreY - pos.y)

\* C9 as stated: with the pointer at the entity's exact centre the distance is
\* epsilon, the speed is MAX_SPEED and the entity moves by MAX_SPEED * dt.
C9_SaturatesAtCentre ==
    PointerAtCentre =>
        /\ fr.dist = EPSILON
        /\ fr.speed = MAX_SPEED
        /\ (fr.newX - fr.pos0.x) * (fr.newX - fr.pos0.x)
             + (fr.newY - fr.pos0.y) * (fr.newY - fr.pos0.y)
           = ((MAX_SPEED * fr.dt) \div (Fixed.time \div Fixed.pos))
               * ((MAX_SPEED * fr.dt) \div (Fixed.time \div Fixed.pos))

\* C9, amended: with the pointer at the entity's exact centre the distance is
\* epsilon, which is below MIN_DISTANCE, so the speed is 0 and the entity does
\* not move in that step.
C9_StillAtCentre ==
    PointerAtCentre =>
        /\ fr.dist = EPSILON
        /\ fr.speed = 0
        /\ fr.ux = 0 /\ fr.uy = 0
        /\ fr.newX = fr.pos0.x /\ fr.newY = fr.pos0.y
        /\ pos = fr.pos0
        /\ (fr.dt > 0 => velocity = [x |-> 0, y |-> 0, nan |-> FALSE])

\* C9 witness: such a step with dt = 0.1 s in main.js (padding 40, half-extent 60).
C9_Witness ==
    /\ PointerAtCentre /\ variant = "main" /\ fr.dt = 100
    /\ fr.dist = EPSILON /\ pos = fr.pos0

\* pos lies within the bounds tick(dt) computes for the arena
InTickBounds ==
    /\ TickMinX <= pos.x /\ pos.x <= TickMaxX(arenaRect)
    /\ TickMinY <= pos.y /\ pos.y <= TickMaxY(arenaRect)

\* the last handler was a resize, or a pointer-absent frame step right after one
AfterResize ==
    \/ op = "resize"
    \/ op = "tick" /\ fr.kind = "coast" /\ fr.prevOp = "resize"

\* C10 as stated: after every resize, and after a pointer-absent step that
\* follows one, the position is within the bounds the frame step uses for the
\* new arena.
C10_ResizeAnyRegion == AfterResize => InTickBounds

\* C10, amended: after every resize to an arena at least two margins wide and
\* high, and after a pointer-absent step that follows one, the position is
\* within the bounds the frame step uses for the new arena.
C10_ResizeRoomyRegion == (AfterResize /\ Roomy) => (InTickBounds /\ InMovable)

\* C10 witness: the entity was clamped to the maximum of a smaller arena by a
\* resize and a pointer-absent step followed.
C10_Witness ==
    /\ op = "tick" /\ fr.kind = "coast" /\ fr.prevOp = "resize" /\ Roomy
    /\ pos.x = TickMaxX(arenaRect) /\ pos.y = TickMaxY(arenaRect)
    /\ arenaRect.width = Px(400)

\* the handlers of input events, by the name each leaves in op
EventOps == {"click", "mousemove", "mouseleave", "resize"}

\* C11 as stated: every input-event handler leaves the entity state (position,
\* velocity) and the audio state unchanged, whenever it runs between frames.
C11_HandlersWriteSnapshotsOnly ==
    [][op' \in EventOps =>
           UNCHANGED <<pos, velocity, audioVars, melodyIndex, melodyTime>>]_vars

\* C11, amended: no input-event handler writes the velocity, the melody state or
\* the frame loop's state.  mouseleave and every mousemove but the first write
\* the pointer only; the first mousemove and a click also start the audio
\* backend; resize writes the arena rectangle and clamps the position into it.
C11_HandlersWriteOwnFields ==
    [][op' \in EventOps =>
           /\ UNCHANGED <<velocity, melodyIndex, melodyTime, last, rafPending>>
           /\ op' = "mouseleave" => UNCHANGED <<pos, arenaRect, audioVars>>
           /\ op' = "mousemove" =>
                  /\ UNCHANGED <<pos, arenaRect>>
                  /\ ~moveOnce => UNCHANGED audioVars
           /\ op' = "click" => UNCHANGED <<pos, mouse, arenaRect>>
           /\ op' = "resize" =>
                  /\ UNCHANGED <<mouse, audioVars>>
                  /\ pos'.x = Max(ResizeMinX, Min(ResizeMaxX(arenaRect'), pos.x))
                  /\ pos'.y = Max(ResizeMinY, Min(ResizeMaxY(arenaRect'), pos.y))]_vars

\* C11 witness: a resize between frames, with the entity in flight and the
\* backend started, has pulled the entity to the right bound of the smaller arena.
C11_Witness ==
    /\ op = "resize" /\ ticks >= 1 /\ audioReady
    /\ ~velocity.nan /\ velocity.x # 0
    /\ CentreX = arenaRect.width - Margin

\* the playback start was rejected: the element exists and is still paused
Rejected == audioElement # Null /\ audioElement.paused

\* C12 as stated: after a rejected playback start, the next click and the next
\* pointer move each attempt the playback start again.
C12_RetriedOnClickOrMove ==
    [][(Rejected /\ op' \in {"click", "mousemove"}) =>
           audioElement'.plays = audioElement.plays + 1]_vars

\* C12, amended: after a rejected playback start, a click attempts the playback
\* start again, and so does the first pointer move if it has not happened yet;
\* a later pointer move attempts nothing.  The attempt, rejected or not, leaves
\* the one frame callback pending.
C12_RetriedOnClick ==
    [][(Rejected /\ op' \in {"click", "mousemove"}) =>
           /\ audioElement'.plays =
                  audioElement.plays
                    + (IF op' = "click" \/ moveOnce THEN 1 ELSE 0)
           /\ (op' = "mousemove" /\ ~moveOnce) => UNCHANGED audioVars
           /\ rafPending' = 1]_vars

\* C12 witness: a click has attempted the playback start a second time after a
\* rejection, and was rejected as well.
C12_Witness ==
    /\ op = "click" /\ Rejected /\ audioElement.plays >= 2 /\ rafPending = 1

\* C13: a frame step in which isMoving is false (the backend is not ready, or the
\* norm of the velocity the step stored does not exceed MOVING_THRESHOLD) leaves
\* the filter-frequency target, the playback rate, the oscillator and the melody
\* index and phase as they were; with the backend ready it writes the gain
\* target 0.
C13_StillFrameKeepsTargets ==
    [][(op' = "tick" /\ ~(audioReady' /\ NormExceeds')) =>
           /\ ~fr'.isMoving
           /\ filterNode' = filterNode
           /\ audioElement' = audioElement
           /\ oscillator' = oscillator
           /\ melodyIndex' = melodyIndex
           /\ melodyTime' = melodyTime
           /\ audioReady => gainNode'.target = 0]_vars

\* C13 witness: a still frame after a moving one; the playback rate the moving
\* frame wrote is still there and the gain target is 0.
C13_Witness ==
    /\ op = "tick" /\ ticks >= 2 /\ audioReady /\ ~fr.isMoving
    /\ gainNode.target = 0
    /\ audioElement # Null /\ audioElement.playbackRate # RATE_DEFAULT

\* a frame step has written the playback rate of the audio element
RateWritten == op = "tick" /\ fr.isMoving /\ audioElement # Null

\* C14 as stated: every playback rate written to the audio element lies in
\* [0.25, 4] and in [PLAYBACK_RATE_MIN, PLAYBACK_RATE_MAX], in either script.
C14_RateInConfiguredRange ==
    RateWritten =>
        /\ RATE_FLOOR <= audioElement.playbackRate
        /\ audioElement.playbackRate <= RATE_CEIL
        /\ PLAYBACK_RATE_MIN <= audioElement.playbackRate
        /\ audioElement.playbackRate <= PLAYBACK_RATE_MAX

\* C14, amended: every playback rate written to the audio element lies in
\* [0.25, 4]; in main.js it also lies in [PLAYBACK_RATE_MIN, PLAYBACK_RATE_MAX].
C14_RateInSafetyRange ==
    RateWritten =>
        /\ RATE_FLOOR <= audioElement.playbackRate
        /\ audioElement.playbackRate <= RATE_CEIL
        /\ variant = "main" =>
              /\ PLAYBACK_RATE_MIN <= audioElement.playbackRate
              /\ audioElement.playbackRate <= PLAYBACK_RATE_MAX

\* C14 witness: part_000 has written the rate 0.25, below PLAYBACK_RATE_MIN: the
\* product of speed factor and pitch factor was cut off by the safety range.
C14_Witness ==
    /\ RateWritten /\ variant = "part_000"
    /\ audioElement.playbackRate = RATE_FLOOR

\* a rate is written as well in an arena too small for the movable sub-rectangle
C14_NoExtentCase ==
    /\ RateWritten /\ variant = "main" /\ ~Roomy
    /\ audioElement.playbackRate = PLAYBACK_RATE_MIN

\* a user interaction that starts the backend has occurred: a click or a
\* pointer move
Interacted == clicks > 0 \/ ~moveOnce

\* C15: the ready flag is false at startup, is true only after a click or a
\* pointer move has occurred, is set by no frame step, and once true stays true
\* (so it changes from false to true at most once).
C15_ReadyOnce ==
    /\ ~audioReady
    /\ [](audioReady => Interacted)
    /\ [][(audioReady => audioReady') /\
          (op' = "tick" => audioReady' = audioReady)]_vars

\* C15 witness: the backend-start operation has run twice and frames have run
\* since; the flag is true.
C15_Witness ==
    /\ audioReady /\ op = "tick" /\ ticks >= 2 /\ clicks >= 1 /\ ~moveOnce

\* C16: exactly one frame callback is pending at every moment; a callback runs
\* one whole step (motion, render, audio) and leaves exactly one successor
\* pending; and, the host running a pending callback, every frame step of the
\* run occurs whatever events come in between.
C16_LoopRunsOn ==
    /\ [](rafPending = 1)
    /\ [][op' = "tick" =>
             /\ fr'.kind \in {"tracked", "coast"}
             /\ ticks' = ticks + 1
             /\ last' = clock'
             /\ rafPending' = 1]_vars
    /\ <>(ticks = MaxLoopTicks)

\* C16 witness: the second frame step has run, with a click and a pointer move
\* before it, and one callback is pending.
C16_Witness ==
    /\ op = "tick" /\ ticks >= 2 /\ rafPending = 1
    /\ clicks >= 1 /\ ~mouse.null

\* C17 as stated: whatever the position, the pointer, the arena and the dt of
\* the frame, dt = 0 included, the step leaves a numeric position and a numeric
\* velocity.
C17_DefinedVelocity ==
    op = "tick" =>
        /\ pos.x \in Int /\ pos.y \in Int
        /\ ~velocity.nan

\* the frame that refutes C17: the pointer is present, the arena is laid out and
\* dt is 0, so the velocity is the quotient 0 / 0
C17_ZeroDtFrame ==
    /\ op = "tick" /\ fr.kind = "tracked" /\ fr.dt = 0
    /\ pos = fr.pos0 /\ velocity.nan

\* C18: whenever the ready flag is true, the audio context and the gain node
\* exist, in main.js the filter node exists, and exactly one of the audio element
\* and the oscillator exists: every node a frame step uses is there.
C18_ReadyGraphComplete ==
    audioReady =>
        /\ audioContext # Null
        /\ gainNode # Null
        /\ variant = "main" => filterNode # Null
        /\ (audioElement # Null) # (oscillator # Null)
        /\ (audioElement # Null) = AUDIO_FILE

\* C18 witness: a frame step of main.js with the oscillator backend has written
\* the gain, filter and oscillator targets while moving.
C18_Witness ==
    /\ op = "tick" /\ audioReady /\ fr.isMoving /\ variant = "main"
    /\ filterNode # Null /\ oscillator # Null /\ audioElement = Null
    /\ gainNode.target = AUDIO_GAIN

\* the entity centre before the frame step
Centre0X == fr.pos0.x + (CentreX - pos.x)
Centre0Y == fr.pos0.y + (CentreY - pos.y)

\* the frame step started inside the movable sub-rectangle
StartedInside ==
    /\ Margin <= Centre0X /\ Centre0X <= arenaRect.width - Margin
    /\ Margin <= Centre0Y /\ Centre0Y <= arenaRect.height - Margin

\* C19: a pointer-present frame step that starts inside the movable
\* sub-rectangle leaves the entity centre, after the clamp, at least as far from
\* the pointer on each axis as it was before the step.
C19_NeverCloser ==
    (op = "tick" /\ fr.kind = "tracked" /\ StartedInside) =>
        /\ Abs(CentreX - mouse.x) >= Abs(Centre0X - mouse.x)
        /\ Abs(CentreY - mouse.y) >= Abs(Centre0Y - mouse.y)

\* C19 witness: a step from inside that the clamp cut short at the left bound;
\* the entity is still farther from the pointer than before.
C19_Witness ==
    /\ op = "tick" /\ fr.kind = "tracked" /\ StartedInside
    /\ fr.newX < pos.x /\ CentreX = Margin
    /\ Abs(CentreX - mouse.x) > Abs(Centre0X - mouse.x)

\* the frame step being taken steps the melody: the entity is moving and the
\* backend is the oscillator
StepsMelody == op' = "tick" /\ fr'.isMoving /\ oscillator' # Null

\* the phase the step starts from plus dt * speedFactor of the step
PhaseSum ==
    melodyTime
      + fr'.dt * Targets(pos', velocity', arenaRect').speedFactor
          * (Fixed.phase \div (Fixed.time * Fixed.rate))

====
